---- MODULE Spec2Model ----
(***************************************************************************)
(* The Kepler propagator of src/kepler-test.py: CelestialBody,             *)
(* CelestialBody.position_at_time, StarSystem and StarSystem.get_positions;*)
(* the entities of src/cosmos/entities.py as src/cosmos/create.py builds   *)
(* them; the validator of src/utilities/validation.py; and the validating  *)
(* CelestialBody of src/cosmos_initialisation_rebuild.py.                  *)
(*                                                                         *)
(* Python floats are modelled by a scaled-down binary format: a number is  *)
(* an integer count of units of 1/Scale, every operation rounds to the     *)
(* nearest unit, and a result whose magnitude exceeds FloatMax is the      *)
(* infinity Inf, as an IEEE double overflows to inf.  The functions of the *)
(* math module are computed to about one unit; like the C library they     *)
(* raise ValueError on an infinite argument and on a negative square root. *)
(***************************************************************************)
EXTENDS Integers, Sequences, FiniteSets, TLC

VARIABLES body, frame, mem, earth_parameters, heap, systems, read, checked,
          rebuilt

vars == <<body, frame, mem, earth_parameters, heap, systems, read, checked,
          rebuilt>>

\* What the propagator never touches, and what the other modules never touch.
cosmos == <<heap, systems, read, checked, rebuilt>>
kepler == <<body, frame, mem, earth_parameters>>

(***************************************************************************)
(* Float arithmetic                                                        *)
(***************************************************************************)
Scale == 4096
FloatMax == 2^28
Inf == FloatMax + 1

TwoPi == 25736
Pi == TwoPi \div 2
HalfPi == TwoPi \div 4
QuarterPi == TwoPi \div 8

Abs(a) == IF a < 0 THEN -a ELSE a
Sgn(a) == IF a < 0 THEN -1 ELSE 1

\* An operation takes its operands as values: each operand expression is
\* evaluated once, before the operation, as the interpreter does.
Apply1(Op(_), x) == CHOOSE r \in {Op(a) : a \in {x}} : TRUE
Apply2(Op(_, _), x, y) == CHOOSE r \in {Op(a, b) : a \in {x}, b \in {y}} : TRUE

\* A float is finite or the infinity.
IsInf(a) == Abs(a) > FloatMax

\* Rounding of an exact result into the format: overflow gives the infinity.
Fl(a) == IF Abs(a) > FloatMax THEN Inf ELSE a

\* a + b and a - b of two floats.
AddV(a, b) == IF IsInf(a) \/ IsInf(b) THEN Inf ELSE Fl(a + b)
Add(x, y) == Apply2(AddV, x, y)
SubV(a, b) == IF IsInf(a) \/ IsInf(b) THEN Inf ELSE Fl(a - b)
Sub(x, y) == Apply2(SubV, x, y)

\* a * b, rounded to the nearest unit (the product is formed from the high
\* and low parts of the operands so that no intermediate leaves 32 bits).
MulAbs(a, b) ==
    LET ah == a \div Scale
        al == a % Scale
        bh == b \div Scale
        bl == b % Scale
    IN  IF ah > 0 /\ bh > (FloatMax \div Scale) \div ah
        THEN Inf
        ELSE Fl(ah * bh * Scale + ah * bl + al * bh
                + (al * bl + Scale \div 2) \div Scale)

MulV(a, b) ==
    IF IsInf(a) \/ IsInf(b) THEN Inf
    ELSE LET m == Apply2(MulAbs, Abs(a), Abs(b))
         IN  IF IsInf(m) THEN Inf ELSE Sgn(a) * Sgn(b) * m

Mul(x, y) == Apply2(MulV, x, y)

\* a / b for b # 0, rounded to the nearest unit.  Division by zero is not a
\* value: the callers raise ZeroDivisionError before dividing.
DivAbs(a, b) ==
    LET q == a \div b
        r == a % b
    IN  IF q > FloatMax \div Scale
        THEN Inf
        ELSE IF b > FloatMax \div (2 * Scale)
             THEN Fl(q * Scale + (r \div (b \div Scale)))
             ELSE Fl(q * Scale + (2 * r * Scale + b) \div (2 * b))

DivV(a, b) ==
    IF IsInf(a) \/ IsInf(b) THEN Inf
    ELSE LET d == Apply2(DivAbs, Abs(a), Abs(b))
         IN  IF IsInf(d) THEN Inf ELSE Sgn(a) * Sgn(b) * d

Div(x, y) == Apply2(DivV, x, y)

\* Product of two small floats (|a|, |b| < 8), as used inside the series.
SMulV(a, b) == Sgn(a) * Sgn(b) * ((Abs(a) * Abs(b) + Scale \div 2) \div Scale)
SMul(x, y) == Apply2(SMulV, x, y)

\* math.sin and math.cos on [0, pi/4]: the Taylor series in Horner form.
SinT(z) ==
    LET z2 == SMul(z, z)
        t1 == Scale - z2 \div 42
        t2 == Scale - SMul(z2, t1) \div 20
        t3 == Scale - SMul(z2, t2) \div 6
    IN  SMul(z, t3)

CosT(z) ==
    LET z2 == SMul(z, z)
        t1 == Scale - z2 \div 56
        t2 == Scale - SMul(z2, t1) \div 30
        t3 == Scale - SMul(z2, t2) \div 12
    IN  Scale - SMul(z2, t3) \div 2

\* On [0, pi/2].
SinQ(z) == IF z <= QuarterPi THEN SinT(z) ELSE CosT(HalfPi - z)
CosQ(z) == IF z <= QuarterPi THEN CosT(z) ELSE SinT(HalfPi - z)

\* math.sin(x), math.cos(x) for a finite x: reduction modulo 2 pi, then by
\* quadrant.
SinV(x) ==
    LET y == x % TwoPi
    IN  IF y <= HalfPi THEN SinQ(y)
        ELSE IF y <= Pi THEN SinQ(Pi - y)
        ELSE IF y <= Pi + HalfPi THEN -SinQ(y - Pi)
        ELSE -SinQ(TwoPi - y)

Sin(x) == Apply1(SinV, x)

CosV(x) ==
    LET y == x % TwoPi
    IN  IF y <= HalfPi THEN CosQ(y)
        ELSE IF y <= Pi THEN -CosQ(Pi - y)
        ELSE IF y <= Pi + HalfPi THEN -CosQ(y - Pi)
        ELSE CosQ(TwoPi - y)

Cos(x) == Apply1(CosV, x)

\* math.tan(x) for a finite x.  The C library returns a huge finite value
\* next to a pole and never raises.
TanMax == Scale * Scale
TanV(x) ==
    LET s == Sin(x)
        c == Cos(x)
    IN  IF c = 0 THEN Sgn(s) * TanMax ELSE Div(s, c)

Tan(x) == Apply1(TanV, x)

\* math.atan: series on [0, tan(pi/8)], atan(y) = pi/4 + atan((y-1)/(y+1))
\* up to 1, atan(y) = pi/2 - atan(1/y) above 1; odd.
AtT(w) ==
    LET w2 == SMul(w, w)
        t1 == Scale \div 9
        t2 == Scale \div 7 - SMul(w2, t1)
        t3 == Scale \div 5 - SMul(w2, t2)
        t4 == Scale \div 3 - SMul(w2, t3)
        t5 == Scale - SMul(w2, t4)
    IN  SMul(w, t5)

TanPi8 == 1697
Atan01(y) ==
    IF y <= TanPi8 THEN AtT(y)
    ELSE QuarterPi + AtT(-(((Scale - y) * Scale + (Scale + y) \div 2) \div (Scale + y)))

AtanV(y) ==
    IF Abs(y) <= Scale THEN Sgn(y) * Atan01(Abs(y))
    ELSE Sgn(y) * (HalfPi - Atan01((Scale * Scale + Abs(y) \div 2) \div Abs(y)))

Atan(x) == Apply1(AtanV, x)

\* Integer square root (floor), by bisection on the bits.
RECURSIVE ISqrtFrom(_, _, _)
ISqrtFrom(n, r, bit) ==
    IF bit = 0 THEN r
    ELSE IF (r + bit) * (r + bit) <= n
         THEN ISqrtFrom(n, r + bit, bit \div 2)
         ELSE ISqrtFrom(n, r, bit \div 2)

ISqrt(n) == ISqrtFrom(n, 0, 2^15)

\* math.sqrt(x) for a finite x >= 0.
RECURSIVE SqrtV(_)
SqrtV(x) == IF x >= 2^18 THEN 2 * SqrtV(x \div 4) ELSE ISqrt(x * Scale)

Sqrt(x) == Apply1(SqrtV, x)

\* x / 2 (exact in binary floating point; here rounded toward zero).
Half(x) == Sgn(x) * (Abs(x) \div 2)

(***************************************************************************)
(* CelestialBody and StarSystem (src/kepler-test.py)                       *)
(***************************************************************************)

\* CelestialBody.__init__: the six fields of a body.
CelestialBody(name, mass, orbital_parameters) ==
    [name |-> name,
     mass |-> mass,
     eccentricity |-> orbital_parameters.eccentricity,
     semi_major_axis |-> orbital_parameters.semi_major_axis,
     inclination |-> orbital_parameters.inclination,
     orbit_period |-> orbital_parameters.orbit_period]

\* StarSystem.__init__: the two bodies of a system.
StarSystem(primary, secondary) == [primary |-> primary, secondary |-> secondary]

BodyIds == {"primary", "secondary"}

\* The Sun of the sample usage.
sun_parameters ==
    [eccentricity |-> 0, semi_major_axis |-> 0, inclination |-> 0,
     orbit_period |-> Scale]

sun == CelestialBody("Sun", "1.989e30", sun_parameters)

\* The loop of position_at_time runs range(10).
MaxIter == 10

\* Line 16: n = 2 * math.pi / self.orbit_period.
MeanMotionRaises(P) == IF P = 0 THEN "ZeroDivisionError" ELSE ""
MeanMotion(P) == Div(TwoPi, P)

\* Line 19: M = n * t.
MeanAnomaly(n, t) == Mul(n, t)

\* Line 25, one pass of the loop body:
\*   E = E - (E - e * sin(E) - M) / (1 - e * cos(E)).
\* math.sin raises ValueError on an infinite E before anything is divided.
NewtonDenominator(e, E) == Sub(Scale, Mul(e, Cos(E)))

NewtonRaises(e, E, M) ==
    IF IsInf(E) THEN "ValueError"
    ELSE IF NewtonDenominator(e, E) = 0 THEN "ZeroDivisionError"
    ELSE ""

\* The step with the cosine in place of the sine in Kepler's equation.
NewtonStepCosine(e, E, M) ==
    Sub(E, Div(Sub(Sub(E, Mul(e, Cos(E))), M), NewtonDenominator(e, E)))

NewtonStep(e, E, M) ==
    Sub(E, Div(Sub(Sub(E, Mul(e, Sin(E))), M), NewtonDenominator(e, E)))

\* The residual E - e sin(E) - M of Kepler's equation at a finite E.
Residual(e, E, M) == Sub(Sub(E, Mul(e, Sin(E))), M)

\* Line 28: v = 2 * atan(sqrt((1 + e) / (1 - e)) * tan(E / 2)).
\* The square root is evaluated first: 1 - e = 0 raises ZeroDivisionError,
\* a negative quotient ValueError; then math.tan raises on an infinite E.
TrueAnomalyRaises(e, E) ==
    IF Scale - e = 0 THEN "ZeroDivisionError"
    ELSE IF Div(Scale + e, Scale - e) < 0 THEN "ValueError"
    ELSE IF IsInf(E) THEN "ValueError"
    ELSE ""

\* The anomaly without the doubling: v = atan(sqrt((1 + e) / (1 - e)) * tan(E / 2)).
TrueAnomalyUndoubled(e, E) ==
    LET k == Sqrt(Div(Scale + e, Scale - e))
        tn == Tan(Half(E))
        p == Mul(k, tn)
    IN  IF IsInf(p) THEN Sgn(tn) * HalfPi ELSE Atan(p)

TrueAnomaly(e, E) ==
    LET k == Sqrt(Div(Scale + e, Scale - e))
        tn == Tan(Half(E))
        p == Mul(k, tn)
    IN  IF IsInf(p) THEN Sgn(tn) * Pi ELSE 2 * Atan(p)

\* Line 31: r = a * (1 - e * cos(E)).
Radius(a, e, E) == Mul(a, Sub(Scale, Mul(e, Cos(E))))

\* Lines 34-36.
XCoord(r, v) == Mul(r, Cos(v))
YCoord(r, v) == Mul(r, Sin(v))
\* z tilted by the cosine of the inclination instead of its sine.
ZCoordCos(r, v, i) == Mul(r, Mul(Sin(v), Cos(i)))
ZCoord(r, v, i) == Mul(r, Mul(Sin(v), Sin(i)))

(***************************************************************************)
(* position_at_time run alone, as one function of the body and the time:   *)
(* the outcome is a returned position or the exception raised.             *)
(***************************************************************************)
RECURSIVE Newton(_, _, _, _)
Newton(e, E, M, k) ==
    IF k = MaxIter THEN [err |-> "", E |-> E]
    ELSE IF NewtonRaises(e, E, M) # "" THEN [err |-> NewtonRaises(e, E, M), E |-> E]
    ELSE Newton(e, NewtonStep(e, E, M), M, k + 1)

Raised(kind) == [kind |-> kind, pos |-> <<0, 0, 0>>]
Returned(x, y, z) == [kind |-> "return", pos |-> <<x, y, z>>]

PositionAtTime(b, t) ==
    IF MeanMotionRaises(b.orbit_period) # "" THEN Raised(MeanMotionRaises(b.orbit_period))
    ELSE LET n == MeanMotion(b.orbit_period)
             M == MeanAnomaly(n, t)
             s == Newton(b.eccentricity, M, M, 0)
         IN  IF s.err # "" THEN Raised(s.err)
             ELSE IF TrueAnomalyRaises(b.eccentricity, s.E) # ""
             THEN Raised(TrueAnomalyRaises(b.eccentricity, s.E))
             ELSE LET v == TrueAnomaly(b.eccentricity, s.E)
                      r == Radius(b.semi_major_axis, b.eccentricity, s.E)
                  IN  Returned(XCoord(r, v), YCoord(r, v), ZCoord(r, v, b.inclination))

(***************************************************************************)
(* Inputs                                                                  *)
(***************************************************************************)
\* Orbital parameters of the secondary body: valid elements, and the
\* invalid ones (negative, 1.0 and above; a zero and a negative period).
Eccentricities == {0, 68, 2048, 4055, -2048, Scale, 6144}
SemiMajorAxes == {0, Scale, 6226}
Inclinations == {0, 2048, HalfPi}
Periods == {0, -64 * Scale, 64 * Scale}

OrbitalParameters ==
    [eccentricity : Eccentricities, semi_major_axis : SemiMajorAxes,
     inclination : Inclinations, orbit_period : Periods]

\* Times of the calls; the first NumTimes of TimeGrid are explored.
TimeGrid ==
    <<0, 3 * Scale, 16 * Scale, 64 * Scale, 67 * Scale, 80 * Scale, FloatMax,
      32 * Scale, 48 * Scale>>
NumTimes == 7
Times == {TimeGrid[j] : j \in {j \in 1..Len(TimeGrid) : j <= NumTimes}}

\* The smaller inputs of the runs with remembered and with concurrent calls.
SmallParameters ==
    [eccentricity : {2048, 4055}, semi_major_axis : {Scale},
     inclination : {2048}, orbit_period : {0, 64 * Scale}]
NumSmallTimes == 2
SmallTimes == {TimeGrid[j] : j \in {j \in 1..Len(TimeGrid) : j <= NumSmallTimes}}

Calls == {1}
ConcurrentCalls == {1, 2}

(***************************************************************************)
(* State                                                                   *)
(*   body   the two bodies of the StarSystem (its primary and secondary)   *)
(*   frame  per call: the position in position_at_time (pc, by line), in   *)
(*          get_positions (outer), and the locals                          *)
(*   mem    a finished call kept for comparison with later ones            *)
(*   earth_parameters  the dict the secondary body was constructed from    *)
(***************************************************************************)
NoFrame ==
    [pc |-> "idle", outer |-> "none", self |-> "primary", t |-> 0, n |-> 0,
     M |-> 0, E |-> 0, k |-> 0, v |-> 0, r |-> 0, pos |-> <<0, 0, 0>>,
     p1 |-> <<0, 0, 0>>, err |-> ""]

NoCall == [set |-> FALSE, el |-> sun, t |-> 0, out |-> Raised("")]

\* Nothing of the other modules has been constructed, read or validated.
NoRead == [pc |-> "idle", cls |-> "", obj |-> <<>>, prop |-> "", depth |-> 0,
           value |-> <<>>, err |-> ""]
NoCheck == [pc |-> "idle", arg |-> <<>>, err |-> ""]
NoBody == [pc |-> "idle", exists |-> FALSE, obj |-> <<>>, arg |-> <<>>, err |-> ""]

CosmosIdle ==
    /\ heap = <<>>
    /\ systems = <<>>
    /\ read = NoRead
    /\ checked = NoCheck
    /\ rebuilt = NoBody

InitWith(params, calls) ==
    /\ \E op \in params :
          /\ earth_parameters = op
          /\ body = StarSystem(sun, CelestialBody("Earth", "5.972e24", op))
    /\ frame = [c \in calls |-> NoFrame]
    /\ mem = NoCall
    /\ CosmosIdle

Init == InitWith(OrbitalParameters, Calls)

\* What a finished frame hands to its caller.
Outcome(f) == IF f.pc = "done" THEN Returned(f.pos[1], f.pos[2], f.pos[3])
              ELSE Raised(f.err)

Enter(f, b, t, outer) ==
    [NoFrame EXCEPT !.pc = "l16", !.self = b, !.t = t, !.outer = outer, !.p1 = f.p1]

\* An exception leaves position_at_time and, uncaught, get_positions.
Raise(f, kind) == [f EXCEPT !.pc = "raised", !.err = kind]

(***************************************************************************)
(* Actions                                                                 *)
(***************************************************************************)
\* A caller invokes b.position_at_time(t).
Call(c, T) ==
    /\ frame[c].pc = "idle"
    /\ \E b \in BodyIds, t \in T :
          frame' = [frame EXCEPT ![c] = Enter(NoFrame, b, t, "none")]
    /\ UNCHANGED <<body, mem, earth_parameters, cosmos>>

\* A caller invokes get_positions(t): line 47 calls primary.position_at_time.
GetPositions(c, T) ==
    /\ frame[c].pc = "idle"
    /\ \E t \in T :
          frame' = [frame EXCEPT ![c] = Enter(NoFrame, "primary", t, "l47")]
    /\ UNCHANGED <<body, mem, earth_parameters, cosmos>>

\* L16 as it would be if the mean motion were stored over the period field
\* (self.orbit_period = n) instead of in the local n.
L16StoresOnSelf(c) ==
    /\ frame[c].pc = "l16"
    /\ LET f == frame[c]
           P == body[f.self].orbit_period
       IN  /\ frame' = [frame EXCEPT ![c] =
                   IF MeanMotionRaises(P) # "" THEN Raise(f, MeanMotionRaises(P))
                   ELSE [f EXCEPT !.n = MeanMotion(P), !.pc = "l19"]]
           /\ body' = IF MeanMotionRaises(P) # "" THEN body
                      ELSE [body EXCEPT ![f.self].orbit_period = MeanMotion(P)]
    /\ UNCHANGED <<mem, earth_parameters, cosmos>>

L16(c) ==
    /\ frame[c].pc = "l16"
    /\ LET f == frame[c]
           P == body[f.self].orbit_period
       IN  frame' = [frame EXCEPT ![c] =
                IF MeanMotionRaises(P) # "" THEN Raise(f, MeanMotionRaises(P))
                ELSE [f EXCEPT !.n = MeanMotion(P), !.pc = "l19"]]
    /\ UNCHANGED <<body, mem, earth_parameters, cosmos>>

L19(c) ==
    /\ frame[c].pc = "l19"
    /\ frame' = [frame EXCEPT ![c].M = MeanAnomaly(frame[c].n, frame[c].t),
                              ![c].pc = "l23"]
    /\ UNCHANGED <<body, mem, earth_parameters, cosmos>>

L23(c) ==
    /\ frame[c].pc = "l23"
    /\ frame' = [frame EXCEPT ![c].E = frame[c].M, ![c].k = 0, ![c].pc = "l25"]
    /\ UNCHANGED <<body, mem, earth_parameters, cosmos>>

\* The loop body with E kept in one place shared by all calls (a global or
\* an attribute) instead of a local: every call iterates on the E of the
\* first frame.
L25SharedE(c) ==
    /\ frame[c].pc = "l25"
    /\ LET f == frame[c]
           e == body[f.self].eccentricity
           shared == frame[CHOOSE d \in DOMAIN frame : \A x \in DOMAIN frame : d <= x].E
       IN  frame' = [frame EXCEPT ![c] =
                IF NewtonRaises(e, shared, f.M) # "" THEN Raise(f, NewtonRaises(e, shared, f.M))
                ELSE [f EXCEPT !.E = NewtonStep(e, shared, f.M),
                               !.k = f.k + 1,
                               !.pc = IF f.k + 1 = MaxIter THEN "l28" ELSE "l25"]]
    /\ UNCHANGED <<body, mem, earth_parameters, cosmos>>

\* The loop with an early exit once a step no longer changes E (if the
\* iterate has converged: break) next to the cap of ten passes.
L25BreakWhenConverged(c) ==
    /\ frame[c].pc = "l25"
    /\ LET f == frame[c]
           e == body[f.self].eccentricity
       IN  frame' = [frame EXCEPT ![c] =
                IF NewtonRaises(e, f.E, f.M) # "" THEN Raise(f, NewtonRaises(e, f.E, f.M))
                ELSE [f EXCEPT !.E = NewtonStep(e, f.E, f.M),
                               !.k = f.k + 1,
                               !.pc = IF f.k + 1 = MaxIter \/ NewtonStep(e, f.E, f.M) = f.E
                                      THEN "l28" ELSE "l25"]]
    /\ UNCHANGED <<body, mem, earth_parameters, cosmos>>

\* One pass of the for loop of lines 24-25; after range(10) is exhausted the
\* call goes on to line 28.
L25(c) ==
    /\ frame[c].pc = "l25"
    /\ LET f == frame[c]
           e == body[f.self].eccentricity
       IN  frame' = [frame EXCEPT ![c] =
                IF NewtonRaises(e, f.E, f.M) # "" THEN Raise(f, NewtonRaises(e, f.E, f.M))
                ELSE [f EXCEPT !.E = NewtonStep(e, f.E, f.M),
                               !.k = f.k + 1,
                               !.pc = IF f.k + 1 = MaxIter THEN "l28" ELSE "l25"]]
    /\ UNCHANGED <<body, mem, earth_parameters, cosmos>>

L28(c) ==
    /\ frame[c].pc = "l28"
    /\ LET f == frame[c]
           e == body[f.self].eccentricity
       IN  frame' = [frame EXCEPT ![c] =
                IF TrueAnomalyRaises(e, f.E) # "" THEN Raise(f, TrueAnomalyRaises(e, f.E))
                ELSE [f EXCEPT !.v = TrueAnomaly(e, f.E), !.pc = "l31"]]
    /\ UNCHANGED <<body, mem, earth_parameters, cosmos>>

L31(c) ==
    /\ frame[c].pc = "l31"
    /\ LET f == frame[c]
           b == body[f.self]
       IN  frame' = [frame EXCEPT ![c].r = Radius(b.semi_major_axis, b.eccentricity, f.E),
                                  ![c].pc = "l34"]
    /\ UNCHANGED <<body, mem, earth_parameters, cosmos>>

L34(c) ==
    /\ frame[c].pc = "l34"
    /\ LET f == frame[c]
       IN  frame' = [frame EXCEPT ![c].pos =
                        <<XCoord(f.r, f.v), YCoord(f.r, f.v),
                          ZCoord(f.r, f.v, body[f.self].inclination)>>,
                                  ![c].pc = "l38"]
    /\ UNCHANGED <<body, mem, earth_parameters, cosmos>>

\* return x, y, z: to the caller, or to line 47 or 48 of get_positions,
\* which goes on to the secondary body or returns both positions (line 50).
L38(c) ==
    /\ frame[c].pc = "l38"
    /\ LET f == frame[c]
       IN  frame' = [frame EXCEPT ![c] =
                IF f.outer = "l47"
                THEN Enter([f EXCEPT !.p1 = f.pos], "secondary", f.t, "l48")
                ELSE IF f.outer = "l48" THEN [f EXCEPT !.pc = "done", !.outer = "l50"]
                ELSE [f EXCEPT !.pc = "done"]]
    /\ UNCHANGED <<body, mem, earth_parameters, cosmos>>

\* The caller takes the result (or the exception) and is free to call again;
\* with keep, a first finished position_at_time call is remembered.
Finish(c, keep) ==
    /\ frame[c].pc \in {"done", "raised"}
    /\ frame' = [frame EXCEPT ![c] = NoFrame]
    /\ mem' = IF keep /\ ~mem.set /\ frame[c].outer = "none"
              THEN [set |-> TRUE, el |-> body[frame[c].self], t |-> frame[c].t,
                    out |-> Outcome(frame[c])]
              ELSE mem
    /\ UNCHANGED <<body, earth_parameters, cosmos>>

Step(c) ==
    \/ L16(c) \/ L19(c) \/ L23(c) \/ L25(c)
    \/ L28(c) \/ L31(c) \/ L34(c) \/ L38(c)

\* One caller, the wide inputs.
Next ==
    \E c \in Calls :
       \/ Call(c, Times)
       \/ GetPositions(c, Times)
       \/ Step(c)
       \/ Finish(c, FALSE)

Spec == Init /\ [][Next]_vars

\* One caller, with the interpreter always going on to the next line of a
\* call that is running; elements that converge, that do not, and that make
\* a Newton step raise.
LiveParameters ==
    [eccentricity : {68, 4055, Scale}, semi_major_axis : {Scale},
     inclination : {2048}, orbit_period : {0, 64 * Scale}]

InitLive == InitWith(LiveParameters, Calls)

NextLive ==
    \E c \in Calls :
       \/ Call(c, SmallTimes)
       \/ GetPositions(c, SmallTimes)
       \/ Step(c)
       \/ Finish(c, FALSE)

SpecLive == InitLive /\ [][NextLive]_vars /\ WF_vars(\E c \in Calls : Step(c))

\* One caller, the secondary body constructed from a dict that may carry an
\* epoch_mean_anomaly key next to the four keys __init__ reads.
WithEpoch(op, m) ==
    [key \in DOMAIN op \cup {"epoch_mean_anomaly"} |->
        IF key = "epoch_mean_anomaly" THEN m ELSE op[key]]

PlainParameters ==
    [eccentricity : {0, 2048}, semi_major_axis : {Scale},
     inclination : {0, 2048}, orbit_period : {64 * Scale}]

EpochParameters ==
    PlainParameters \cup {WithEpoch(op, m) : op \in PlainParameters, m \in {0, HalfPi}}

InitEpoch == InitWith(EpochParameters, Calls)

SpecEpoch == InitEpoch /\ [][NextLive]_vars

\* One caller, with periods of 2 and 8 time units and whole times on both
\* sides of the epoch: the mean anomaly runs through the multiples of pi / 4
\* and of pi, and the eccentric anomaly through every quadrant.
AnomalyParameters ==
    [eccentricity : {0, 68, 2048, 4055}, semi_major_axis : {Scale},
     inclination : {2048}, orbit_period : {2 * Scale, 8 * Scale}]

NumQuarters == 9
AnomalyTimes == {j * Scale : j \in (0 - NumQuarters)..NumQuarters}

InitAnomaly == InitWith(AnomalyParameters, Calls)

NextAnomaly ==
    \E c \in Calls :
       \/ Call(c, AnomalyTimes)
       \/ GetPositions(c, AnomalyTimes)
       \/ Step(c)
       \/ Finish(c, FALSE)

SpecAnomaly == InitAnomaly /\ [][NextAnomaly]_vars

\* One caller whose first finished call may be remembered.
InitSeq == InitWith(SmallParameters, Calls)

NextSeq ==
    \E c \in Calls :
       \/ Call(c, SmallTimes)
       \/ GetPositions(c, SmallTimes)
       \/ Step(c)
       \/ \E keep \in BOOLEAN : Finish(c, keep)

SpecSeq == InitSeq /\ [][NextSeq]_vars

\* Two callers whose calls interleave line by line.
InitConc == InitWith(SmallParameters, ConcurrentCalls)

NextConc ==
    \E c \in ConcurrentCalls :
       \/ Call(c, SmallTimes)
       \/ Step(c)
       \/ Finish(c, FALSE)

SpecConc == InitConc /\ [][NextConc]_vars

(***************************************************************************)
(* The entities of src/cosmos/entities.py                                  *)
(*   heap     the CelestialBody objects constructed so far; an object is   *)
(*            its index, Ref(i) a reference to it                          *)
(*   systems  the StarSystem objects constructed so far                    *)
(* Python values of different types are kept apart by a tag: a str, a      *)
(* reference to an object, None.  == on them is equality of tagged values: *)
(* an object without __eq__ equals only itself and never a str.            *)
(***************************************************************************)
Str(s) == [str |-> s]
Ref(i) == [ref |-> i]
None == [none |-> TRUE]

List(q) == [list |-> q]

IsRef(x) == DOMAIN x = {"ref"}
IsStr(x) == DOMAIN x = {"str"}
IsNone(x) == DOMAIN x = {"none"}

PyEq(a, b) == a = b

\* x or [] of lines 284, 337 and 376.
OrEmpty(x) == IF IsNone(x) THEN <<>> ELSE x.list

\* CelestialBody.__init__ (lines 96-116): three dicts copied key by key, the
\* satellites list always starting empty.
CosmosCelestialBody(general_info, orbital_parameters, physical_properties) ==
    [general_info |->
        [name |-> general_info.name,
         description |-> general_info.description,
         parent |-> general_info.parent,
         satellites |-> <<>>],
     orbital_parameters |->
        [eccentricity |-> orbital_parameters.eccentricity,
         semi_major_axis |-> orbital_parameters.semi_major_axis,
         inclination |-> orbital_parameters.inclination,
         orbital_period |-> orbital_parameters.orbital_period],
     physical_properties |->
        [mass |-> physical_properties.mass,
         radius |-> physical_properties.radius,
         body_type |-> physical_properties.body_type,
         axial_tilt |-> physical_properties.axial_tilt,
         rotation_period |-> physical_properties.rotation_period]]

\* StarSystem.__init__, lines 282-284.
CosmosStarSystem(name, location, bodies) ==
    [cls |-> "StarSystem", _name |-> name, _location |-> location,
     _bodies |-> OrEmpty(bodies)]

\* StarSystem._generate_satellite_list (lines 293-296): the two nested loops
\* over self._bodies, pair number k being (body, potential_satellite) =
\* (bodies[k div n], bodies[k mod n]); returns the heap after the appends.
RECURSIVE GenerateSatelliteList(_, _, _)
GenerateSatelliteList(h, bodies, k) ==
    LET n == Len(bodies)
        b == bodies[(k \div n) + 1]
        potential_satellite == bodies[(k % n) + 1]
    IN  IF k >= n * n THEN h
        ELSE IF PyEq(h[potential_satellite].general_info.parent,
                     h[b].general_info.name)
             THEN GenerateSatelliteList(
                     [h EXCEPT ![b].general_info.satellites =
                                   Append(@, Ref(potential_satellite))],
                     bodies, k + 1)
             ELSE GenerateSatelliteList(h, bodies, k + 1)

\* The dicts of src/cosmos/create.py (numbers that are only stored are kept
\* as written, in a string).
sun_orbit ==
    [eccentricity |-> 0, semi_major_axis |-> 0, inclination |-> 0,
     orbital_period |-> 0]
sun_properties ==
    [mass |-> "1.989e30", radius |-> "696340", body_type |-> Str("star"),
     axial_tilt |-> 0, rotation_period |-> 25]

\* Bounds of the construction runs.
MaxBodies == 3
MaxSystems == 2
MaxListLen == 2

BodyNames == {Str("Sun"), Str("Earth")}

\* A parent as create.py passes it (None or the parent object) or as the
\* usage notes of the module pass it (the parent's name).
Parents(h) == {None} \cup {Ref(i) : i \in 1..Len(h)} \cup {Str("Sun")}

GeneralInfos(h) ==
    [name : BodyNames, description : {Str("")}, parent : Parents(h),
     satellites : {<<>>}]

\* The lists of bodies a StarSystem can be given: None, or up to MaxListLen
\* of the constructed bodies, in any order, repeats included.
BodyLists(h) ==
    {None} \cup {List(q) : q \in UNION {[1..m -> 1..Len(h)] : m \in 0..MaxListLen}}

\* body = CelestialBody(general_info=..., orbital_parameters=..., ...)
NewCelestialBody ==
    /\ Len(heap) < MaxBodies
    /\ \E gi \in GeneralInfos(heap) :
          heap' = Append(heap, CosmosCelestialBody(gi, sun_orbit, sun_properties))
    /\ UNCHANGED <<systems, read, checked, rebuilt, kepler>>

\* system = StarSystem(name, location, bodies): the constructor and the
\* _generate_satellite_list() it ends with (line 286).
NewStarSystem ==
    /\ Len(systems) < MaxSystems
    /\ \E bodies \in BodyLists(heap) :
          LET system == CosmosStarSystem(Str("Solar System"), <<0, 0, 0>>, bodies)
          IN  /\ systems' = Append(systems, system)
              /\ heap' = GenerateSatelliteList(heap, system._bodies, 0)
    /\ UNCHANGED <<read, checked, rebuilt, kepler>>

KeplerIdle ==
    /\ earth_parameters = sun_parameters
    /\ body = StarSystem(sun, sun)
    /\ frame = [c \in Calls |-> NoFrame]
    /\ mem = NoCall

InitCosmos == KeplerIdle /\ CosmosIdle

NextCosmos == NewCelestialBody \/ NewStarSystem

SpecCosmos == InitCosmos /\ [][NextCosmos]_vars

(***************************************************************************)
(* The read-only properties of src/cosmos/entities.py                      *)
(*   read  the property read in progress: the object and its class, the    *)
(*         property, the depth of getter frames on the stack, and the      *)
(*         value returned or the exception raised                          *)
(***************************************************************************)
\* Constellation.__init__, Skybox.__init__, StarCluster.__init__.
Constellation(name, description, location) ==
    [_name |-> name, _description |-> description, _location |-> location]

Skybox(radius, constellations) ==
    [_radius |-> radius, _constellations |-> OrEmpty(constellations)]

StarCluster(name, skybox, star_systems) ==
    [_name |-> name, skybox |-> skybox, _star_systems |-> OrEmpty(star_systems)]

\* The declared properties of each class.
Properties(cls) ==
    CASE cls = "CelestialBody" ->
            {"name", "description", "parent", "satellites", "eccentricity",
             "perigee", "semi_major_axis", "inclination", "orbital_period",
             "mass", "radius", "body_type", "axial_tilt", "rotation_period"}
      [] cls = "Constellation" -> {"name", "description", "location"}
      [] cls = "StarSystem" -> {"name", "location", "bodies"}
      [] cls = "Skybox" -> {"radius", "constellations"}
      [] cls = "StarCluster" -> {"name", "star_systems"}

\* The return statement of each getter: an item of one of the three dicts of
\* a CelestialBody, the property itself (return self.name), or the private
\* attribute (return self._name).
GetterBody(cls, prop) ==
    CASE cls = "CelestialBody" ->
            [kind |-> "item", key |-> prop,
             of |-> IF prop \in {"name", "description", "parent", "satellites"}
                    THEN "general_info"
                    ELSE IF prop \in {"eccentricity", "perigee", "semi_major_axis",
                                      "inclination", "orbital_period"}
                         THEN "orbital_parameters"
                         ELSE "physical_properties"]
      [] cls \in {"Constellation", "StarSystem", "Skybox"} ->
            [kind |-> "self", key |-> prop, of |-> ""]
      [] cls = "StarCluster" ->
            [kind |-> "attr", of |-> "",
             key |-> IF prop = "name" THEN "_name" ELSE "_star_systems"]

\* The interpreter's limit on nested calls, after which a call raises
\* RecursionError.
RecursionLimit == 5

\* The objects of src/cosmos/create.py and of the commented-out lines 199.
create_sun ==
    CosmosCelestialBody(
       [name |-> Str("Sun"), description |-> Str("The star"), parent |-> None,
        satellites |-> <<>>],
       sun_orbit, sun_properties)

create_earth ==
    CosmosCelestialBody(
       [name |-> Str("Earth"), description |-> Str("Our home"), parent |-> Ref(1),
        satellites |-> <<>>],
       [eccentricity |-> 68, semi_major_axis |-> "149598262", inclination |-> "7.155",
        orbital_period |-> "365.256"],
       [mass |-> "5.97237e24", radius |-> "6371", body_type |-> Str("planet"),
        axial_tilt |-> "23.44", rotation_period |-> "0.99726968"])

solar_system == CosmosStarSystem(Str("Solar System"), <<0, 0, 0>>, List(<<1, 2>>))

ConstellationArgs ==
    [name : {Str("Orion"), Str("Lyra")}, description : {Str("The Orion constellation")},
     location : {<<0, 0>>}]
SkyboxArgs == [radius : {100, 200}, constellations : {None, List(<<>>)}]
StarClusterArgs ==
    [name : {Str("Local Star Cluster"), Str("")}, star_systems : {None, List(<<1>>)}]

\* x = obj.prop, for an object of src/cosmos/create.py: the getter is entered.
Enters(cls, obj, prop) ==
    read' = [NoRead EXCEPT !.pc = "getter", !.cls = cls, !.obj = obj,
                           !.prop = prop, !.depth = 1]

ReadProperty ==
    /\ read.pc = "idle"
    /\ \/ \E i \in 1..Len(heap), prop \in Properties("CelestialBody") :
             Enters("CelestialBody", heap[i], prop)
       \/ \E n \in 1..Len(systems), prop \in Properties("StarSystem") :
             Enters("StarSystem", systems[n], prop)
       \/ \E a \in ConstellationArgs, prop \in Properties("Constellation") :
             Enters("Constellation",
                    Constellation(a.name, a.description, a.location), prop)
       \/ \E a \in SkyboxArgs, prop \in Properties("Skybox") :
             Enters("Skybox", Skybox(a.radius, a.constellations), prop)
       \/ \E a \in StarClusterArgs, prop \in Properties("StarCluster") :
             Enters("StarCluster",
                    StarCluster(a.name, Skybox(100, None), a.star_systems), prop)
    /\ UNCHANGED <<heap, systems, checked, rebuilt, kepler>>

\* The body of the getter runs: it returns the attribute or the dict item,
\* raises KeyError for a key the dict does not have, or reads the property
\* again, which enters the same getter one frame deeper or, at the limit of
\* the stack, raises RecursionError.
Getter ==
    /\ read.pc = "getter"
    /\ LET g == GetterBody(read.cls, read.prop)
       IN  read' =
             CASE g.kind = "attr" ->
                     [read EXCEPT !.pc = "returned", !.value = read.obj[g.key]]
               [] g.kind = "item" ->
                     IF g.key \in DOMAIN read.obj[g.of]
                     THEN [read EXCEPT !.pc = "returned",
                                       !.value = read.obj[g.of][g.key]]
                     ELSE [read EXCEPT !.pc = "raised", !.err = "KeyError"]
               [] g.kind = "self" ->
                     IF read.depth >= RecursionLimit
                     THEN [read EXCEPT !.pc = "raised", !.err = "RecursionError"]
                     ELSE [read EXCEPT !.depth = read.depth + 1]
    /\ UNCHANGED <<heap, systems, checked, rebuilt, kepler>>

\* The reader has the value, or the exception, and may read again.
ReadDone ==
    /\ read.pc \in {"returned", "raised"}
    /\ read' = NoRead
    /\ UNCHANGED <<heap, systems, checked, rebuilt, kepler>>

\* After src/cosmos/create.py: the Sun, the Earth and the solar system.
InitRead ==
    /\ KeplerIdle
    /\ heap = GenerateSatelliteList(<<create_sun, create_earth>>, <<1, 2>>, 0)
    /\ systems = <<solar_system>>
    /\ read = NoRead
    /\ checked = NoCheck
    /\ rebuilt = NoBody

NextRead == ReadProperty \/ Getter \/ ReadDone

SpecRead == InitRead /\ [][NextRead]_vars

(***************************************************************************)
(* CelestialBodyValidation.validate_orbital_mechanics                      *)
(* (src/utilities/validation.py)                                           *)
(*   checked  the call in progress: its argument and how it ended          *)
(* A number is Num(x), an int or a finite float of value x, or the float   *)
(* NaN, which is an instance of float and for which every comparison is    *)
(* False.                                                                  *)
(***************************************************************************)
Num(x) == [num |-> x]
NaN == [nan |-> TRUE]

\* isinstance(v, (int, float)).
IsNumber(v) == DOMAIN v = {"num"} \/ DOMAIN v = {"nan"}

\* v < c and v <= c for a number v and an int c.
PyLt(v, c) == DOMAIN v = {"num"} /\ v.num < c
PyLe(v, c) == DOMAIN v = {"num"} /\ v.num <= c

required_keys == <<"apogee", "perigee", "orbit_period", "rotation_period", "inclination">>

\* Lines 71-73: the first required key that is not in the dict, or 0.
FirstMissing(orbital_mechanics) ==
    LET missing == {j \in 1..Len(required_keys) :
                       required_keys[j] \notin DOMAIN orbital_mechanics}
    IN  IF missing = {} THEN 0
        ELSE CHOOSE j \in missing : \A k \in missing : j <= k

ValueError(msg) == [err |-> "ValueError", msg |-> msg]
NoError == [err |-> "", msg |-> ""]

\* Lines 75-89, one of the four tests: not a number, or below 0.
NotPositive(v) == ~IsNumber(v) \/ PyLt(v, 0)

\* validate_orbital_mechanics, lines 69-92: the exception raised, or none.
validate_orbital_mechanics(orbital_mechanics) ==
    IF FirstMissing(orbital_mechanics) # 0
    THEN ValueError(<<required_keys[FirstMissing(orbital_mechanics)],
                      "is missing in orbital_mechanics">>)
    ELSE IF NotPositive(orbital_mechanics.apogee)
    THEN ValueError(<<"apogee", "should be a positive number">>)
    ELSE IF NotPositive(orbital_mechanics.perigee)
    THEN ValueError(<<"perigee", "should be a positive number">>)
    ELSE IF NotPositive(orbital_mechanics.orbit_period)
    THEN ValueError(<<"orbit_period", "should be a positive number">>)
    ELSE IF NotPositive(orbital_mechanics.rotation_period)
    THEN ValueError(<<"rotation_period", "should be a positive number">>)
    ELSE IF ~IsNumber(orbital_mechanics.inclination)
    THEN ValueError(<<"inclination", "should be a number">>)
    ELSE NoError

\* The values a key of the dict may hold: numbers below, at and above 0,
\* and a str.
MechanicsValues == {Num(-1), Num(0), Num(1), Str("1.0167")}

\* The dicts: any of the five keys present or missing.
MechanicsDicts ==
    UNION {[keys -> MechanicsValues] :
              keys \in SUBSET {required_keys[j] : j \in 1..Len(required_keys)}}

Validate ==
    /\ checked.pc = "idle"
    /\ \E orbital_mechanics \in MechanicsDicts :
          LET raised == validate_orbital_mechanics(orbital_mechanics)
          IN  checked' = [pc |-> IF raised.err = "" THEN "returned" ELSE "raised",
                          arg |-> orbital_mechanics, err |-> raised.err]
    /\ UNCHANGED <<heap, systems, read, rebuilt, kepler>>

ValidateDone ==
    /\ checked.pc \in {"returned", "raised"}
    /\ checked' = NoCheck
    /\ UNCHANGED <<heap, systems, read, rebuilt, kepler>>

NextValidate == Validate \/ ValidateDone

SpecValidate == InitCosmos /\ [][NextValidate]_vars

(***************************************************************************)
(* The validating CelestialBody of src/cosmos_initialisation_rebuild.py    *)
(*   rebuilt  the body a caller holds (exists, obj), and the last call     *)
(*            made: which (pc), with what (arg), and the exception raised  *)
(***************************************************************************)
VALID_BODY_TYPES == <<"star", "planet", "moon", "comet", "asteroid">>

\* validate_body_type, lines 48-50: the exception raised, or none.
validate_body_type(body_type) ==
    IF \E j \in 1..Len(VALID_BODY_TYPES) : VALID_BODY_TYPES[j] = body_type
    THEN NoError
    ELSE ValueError(<<"Unrecognized body type", body_type>>)

\* validate_positive_value, lines 56-58.
validate_positive_value(value, parameter_name) ==
    IF PyLe(value, 0) THEN ValueError(<<parameter_name, "must be a positive value.">>)
    ELSE NoError

\* general_info.get('parent').
GetParent(general_info) ==
    IF "parent" \in DOMAIN general_info THEN general_info.parent ELSE None

\* CelestialBody.__init__, lines 23-41: the validations in the order the
\* three dict displays evaluate them; the first exception leaves __init__.
RebuildChecks(general_info, orbital_mechanics, physical_properties) ==
    <<validate_body_type(general_info.body_type),
      validate_positive_value(orbital_mechanics.apogee, "Apogee"),
      validate_positive_value(orbital_mechanics.perigee, "Perigee"),
      validate_positive_value(orbital_mechanics.orbit_period, "Orbit Period"),
      validate_positive_value(orbital_mechanics.rotation_period, "Rotation Period"),
      validate_positive_value(physical_properties.radius, "Radius")>>

RebuildRaises(general_info, orbital_mechanics, physical_properties) ==
    LET checks == RebuildChecks(general_info, orbital_mechanics, physical_properties)
        failed == {j \in 1..Len(checks) : checks[j].err # ""}
    IN  IF failed = {} THEN NoError
        ELSE checks[CHOOSE j \in failed : \A k \in failed : j <= k]

RebuildCelestialBody(general_info, orbital_mechanics, physical_properties) ==
    [general_info |->
        [name |-> general_info.name,
         description |-> general_info.description,
         body_type |-> general_info.body_type,
         parent |-> GetParent(general_info)],
     orbital_mechanics |->
        [apogee |-> orbital_mechanics.apogee,
         perigee |-> orbital_mechanics.perigee,
         orbit_period |-> orbital_mechanics.orbit_period,
         rotation_period |-> orbital_mechanics.rotation_period,
         inclination |-> orbital_mechanics.inclination],
     physical_properties |->
        [radius |-> physical_properties.radius,
         axial_tilt |-> physical_properties.axial_tilt]]

\* The floats a caller passes: below, at and above 0, and NaN.
RebuildValues == {Num(-1), Num(0), Num(1), Num(2), NaN}

RebuildInfos ==
    [name : {"Earth"}, description : {"Our home planet."},
     body_type : {"planet", "moon", "galaxy"}]
       \cup [name : {"Earth"}, description : {"Our home planet."},
             body_type : {"planet"}, parent : {Str("Sun")}]
RebuildMechanics ==
    [apogee : RebuildValues, perigee : {Num(-1), Num(1), NaN},
     orbit_period : {Num(0), Num(1)}, rotation_period : {Num(-1), Num(1)},
     inclination : {Num(-1)}]
RebuildProperties == [radius : {Num(0), Num(2)}, axial_tilt : {Num(0)}]

\* earth = CelestialBody(planet_info, planet_orbit, planet_properties): the
\* name is bound only if __init__ returns.
Construct ==
    /\ ~rebuilt.exists
    /\ \E gi \in RebuildInfos, om \in RebuildMechanics, pp \in RebuildProperties :
          LET raised == RebuildRaises(gi, om, pp)
          IN  rebuilt' =
                IF raised.err # ""
                THEN [rebuilt EXCEPT !.pc = "__init__", !.arg = <<gi, om, pp>>,
                                     !.err = raised.err]
                ELSE [pc |-> "__init__", exists |-> TRUE,
                      obj |-> RebuildCelestialBody(gi, om, pp),
                      arg |-> <<gi, om, pp>>, err |-> ""]
    /\ UNCHANGED <<heap, systems, read, checked, kepler>>

\* update_apogee assigning the item before the value is validated.
UpdateApogeeStoresFirst ==
    /\ rebuilt.exists
    /\ \E new_apogee \in RebuildValues :
          LET raised == validate_positive_value(new_apogee, "Apogee")
          IN  rebuilt' = [rebuilt EXCEPT !.pc = "update_apogee", !.arg = <<new_apogee>>,
                                         !.err = raised.err,
                                         !.obj.orbital_mechanics.apogee = new_apogee]
    /\ UNCHANGED <<heap, systems, read, checked, kepler>>

\* earth.update_apogee(new_apogee), line 70: the item is assigned only if
\* validate_positive_value returns.
UpdateApogee ==
    /\ rebuilt.exists
    /\ \E new_apogee \in RebuildValues :
          LET raised == validate_positive_value(new_apogee, "Apogee")
          IN  rebuilt' =
                IF raised.err # ""
                THEN [rebuilt EXCEPT !.pc = "update_apogee", !.arg = <<new_apogee>>,
                                     !.err = raised.err]
                ELSE [rebuilt EXCEPT !.pc = "update_apogee", !.arg = <<new_apogee>>,
                                     !.err = "",
                                     !.obj.orbital_mechanics.apogee = new_apogee]
    /\ UNCHANGED <<heap, systems, read, checked, kepler>>

NextRebuild == Construct \/ UpdateApogee

SpecRebuild == InitCosmos /\ [][NextRebuild]_vars

(***************************************************************************)
(* Properties                                                              *)
(***************************************************************************)
Frames == {frame[c] : c \in DOMAIN frame}

\* The body a frame's call is about; elements the contract calls valid.
BodyOf(f) == body[f.self]
ValidElements(b) ==
    b.eccentricity >= 0 /\ b.eccentricity < Scale /\ b.orbit_period > 0
InvalidElements(b) ==
    b.eccentricity < 0 \/ b.eccentricity >= Scale \/ b.orbit_period < 0

\* A position_at_time call is leaving: returning f.pos or raising f.err.
Returning(f) == f.pc = "l38"
Raising(f) == f.pc = "raised"
Leaving(f) == IF Returning(f) THEN Returned(f.pos[1], f.pos[2], f.pos[3])
              ELSE Raised(f.err)

\* Tolerances, in units: a sixteenth of a length unit for positions (the
\* format carries twelve fractional bits and a mean motion rounded to them)
\* and eight units for the residual of Kepler's equation; both are far
\* looser than anything a double needs.
PosTol == Scale \div 16
ResidualTol == Scale \div 512

Close(p, q) == \A j \in 1..3 : Abs(p[j] - q[j]) <= PosTol

\* C1: for a body whose orbital period is 0, position_at_time returns
\* (0, 0, 0) for every t, without running the Newton solver and without
\* raising.  (Stated for an eccentricity in [0, 1).)
C1_ZeroPeriodAtOrigin ==
    \A f \in Frames :
       (f.pc # "idle" /\ BodyOf(f).orbit_period = 0
          /\ BodyOf(f).eccentricity >= 0 /\ BodyOf(f).eccentricity < Scale) =>
          /\ ~Raising(f)
          /\ f.pc # "l25"
          /\ Returning(f) => f.pos = <<0, 0, 0>>

\* C2: with an eccentricity outside [0, 1) or a negative period, every call
\* ends with InvalidElementsError: it returns no position and raises no other
\* kind of error.  (Stated for a period other than 0, the case of C1.)
C2_InvalidElementsRejected ==
    \A f \in Frames :
       (f.pc # "idle" /\ InvalidElements(BodyOf(f)) /\ BodyOf(f).orbit_period # 0) =>
          /\ ~Returning(f)
          /\ Raising(f) => f.err = "InvalidElementsError"

\* C3: every call that returns a position used an eccentric anomaly E with
\* |E - e sin(E) - M| within the tolerance; an under-converged E is never
\* returned from.  (Stated for valid elements and with the tolerance of the
\* format, eight units, in place of 1e-8.)
C3_ReturnsConverged ==
    \A f \in Frames :
       (Returning(f) /\ ValidElements(BodyOf(f))) =>
          Abs(Residual(BodyOf(f).eccentricity, f.E, f.M)) <= ResidualTol

\* C4: position_at_time is pure.  No step of a call, and no step of
\* get_positions, changes a field of a body; and a call with the elements and
\* the time of a remembered earlier call leaves as that call left (the same
\* position, or the same exception), whatever calls were made in between.
SameAnswer ==
    \A f \in Frames :
       (mem.set /\ (Returning(f) \/ Raising(f))
          /\ BodyOf(f) = mem.el /\ f.t = mem.t) => Leaving(f) = mem.out

C4_Pure == [][body' = body /\ SameAnswer']_vars

\* C4 witness: a call inside get_positions is returning the position a
\* remembered direct call on the same body at the same time returned.
C4_Witness ==
    \E f \in Frames :
       /\ mem.set /\ mem.out.kind = "return" /\ mem.out.pos[2] # 0
       /\ Returning(f) /\ f.outer = "l48"
       /\ BodyOf(f) = mem.el /\ f.t = mem.t

\* C5: concurrent calls, on the same body or on different bodies, interleaved
\* line by line (between Newton iterations too), each leave exactly as the
\* same call leaves when run alone: E and the other intermediates are local
\* to the call.
C5_Isolated ==
    \A f \in Frames :
       (Returning(f) \/ Raising(f)) => Leaving(f) = PositionAtTime(BodyOf(f), f.t)

\* C5 witness: one call is returning a position while another call on the
\* same body, for another time, is in the middle of its Newton loop.
C5_Witness ==
    \E c \in DOMAIN frame, d \in DOMAIN frame :
       /\ c # d
       /\ Returning(frame[c]) /\ frame[c].pos[2] # 0
       /\ frame[d].pc = "l25" /\ frame[d].k \in 1..(MaxIter - 1)
       /\ frame[d].self = frame[c].self /\ frame[d].t # frame[c].t

\* C6: with eccentricity 0, whatever the inclination, every returned position
\* lies at distance semi_major_axis from the origin: x^2 + y^2 + z^2 = a^2.
\* (Stated to within the position tolerance, for a period > 0.)
SquaredDistance(p) == p[1] * p[1] + p[2] * p[2] + p[3] * p[3]

AtDistance(p, a) ==
    /\ SquaredDistance(p) <= (a + PosTol) * (a + PosTol)
    /\ a > PosTol => SquaredDistance(p) >= (a - PosTol) * (a - PosTol)

C6_CircularRadius ==
    \A f \in Frames :
       (Returning(f) /\ ValidElements(BodyOf(f)) /\ BodyOf(f).eccentricity = 0) =>
          AtDistance(f.pos, BodyOf(f).semi_major_axis)

\* C7: with a period P > 0 and an eccentricity in [0, 1), the positions
\* returned for t and for t + P are equal to within the tolerance.  (Stated
\* for the times of the first period, 0 <= t < P.)
C7_Periodic ==
    \A f \in Frames :
       (Returning(f) /\ ValidElements(BodyOf(f))
          /\ f.t >= 0 /\ f.t < BodyOf(f).orbit_period) =>
          LET later == PositionAtTime(BodyOf(f), f.t + BodyOf(f).orbit_period)
          IN  later.kind = "return" /\ Close(f.pos, later.pos)

\* C8: with inclination 0 and valid elements, the z coordinate of every
\* returned position is exactly 0.
C8_ZeroInclination ==
    \A f \in Frames :
       (Returning(f) /\ ValidElements(BodyOf(f)) /\ BodyOf(f).inclination = 0) =>
          f.pos[3] = 0

\* C8 witness: a body of inclination 0 on an eccentric orbit returns a
\* position off the x axis.
C8_Witness ==
    \E f \in Frames :
       /\ Returning(f) /\ ValidElements(BodyOf(f)) /\ BodyOf(f).inclination = 0
       /\ BodyOf(f).eccentricity > 0 /\ f.pos[2] # 0

\* C9: at t = 0, for an eccentricity in [0, 1) and inclination 0, the mean
\* anomaly is 0, the eccentric anomaly is 0 before and after every Newton
\* step, the true anomaly is 0, nothing is raised, and the position returned
\* is (a (1 - e), 0, 0).
C9_Periapsis ==
    \A f \in Frames :
       (f.pc # "idle" /\ f.t = 0 /\ ValidElements(BodyOf(f))
          /\ BodyOf(f).inclination = 0) =>
          /\ ~Raising(f)
          /\ f.M = 0 /\ f.E = 0 /\ f.v = 0
          /\ f.pc \in {"l34", "l38", "done"} =>
                f.r = Mul(BodyOf(f).semi_major_axis, Scale - BodyOf(f).eccentricity)
          /\ f.pc \in {"l38", "done"} =>
                f.pos = <<Mul(BodyOf(f).semi_major_axis, Scale - BodyOf(f).eccentricity), 0, 0>>

\* C9 witness: the body with e = 68/4096 (0.0166) and a = 1 returns
\* (4028/4096, 0, 0) at t = 0, after its ten Newton steps.
C9_Witness ==
    \E f \in Frames :
       /\ Returning(f) /\ f.t = 0 /\ f.k = MaxIter
       /\ BodyOf(f).eccentricity = 68 /\ BodyOf(f).semi_major_axis = Scale
       /\ BodyOf(f).inclination = 0 /\ BodyOf(f).orbit_period > 0
       /\ f.pos = <<4028, 0, 0>>

\* C10: with a period > 0 and an eccentricity in [0, 1), a call for any
\* finite t raises nothing (no division by zero, no domain error), E is
\* finite after every iteration and the position returned is finite.
C10_Finite ==
    \A f \in Frames :
       (f.pc # "idle" /\ ValidElements(BodyOf(f))) =>
          /\ ~Raising(f)
          /\ f.k >= 1 => ~IsInf(f.E)
          /\ Returning(f) => \A j \in 1..3 : ~IsInf(f.pos[j])

\* C11: a body with semi_major_axis 0, a period > 0 and an eccentricity in
\* [0, 1), at any inclination, is fixed at the origin: every call, for every
\* t, raises nothing and returns (0, 0, 0).
C11_FixedAtOrigin ==
    \A f \in Frames :
       (f.pc # "idle" /\ ValidElements(BodyOf(f))
          /\ BodyOf(f).semi_major_axis = 0) =>
          /\ ~Raising(f)
          /\ Returning(f) => f.pos = <<0, 0, 0>>

\* C12: after a StarSystem is constructed over a list of bodies, for every
\* two bodies b and s of the list, s is in b.satellites if and only if the
\* parent of s is b, the parent being given as the parent object (or None).
ParentIsObject(b) ==
    LET p == heap[b].general_info.parent IN IsNone(p) \/ IsRef(p)

InSatellites(s, b) ==
    \E j \in 1..Len(heap[b].general_info.satellites) :
       heap[b].general_info.satellites[j] = Ref(s)

C12_SatellitesLinked ==
    \A n \in 1..Len(systems) :
       LET bodies == systems[n]._bodies
       IN  \A i \in 1..Len(bodies), j \in 1..Len(bodies) :
              (\A k \in 1..Len(heap) : ParentIsObject(k)) =>
                 (InSatellites(bodies[j], bodies[i])
                    <=> heap[bodies[j]].general_info.parent = Ref(bodies[i]))

\* C13: reading a property of a StarSystem (name, location, bodies), of a
\* Constellation (name, description, location) or of a Skybox (radius,
\* constellations) terminates and returns the value the constructor was
\* given: the read raises nothing and the value returned is the stored one.
StoredValue(cls, obj, prop) ==
    CASE cls = "StarSystem" ->
            (CASE prop = "name" -> obj._name [] prop = "location" -> obj._location
               [] prop = "bodies" -> obj._bodies)
      [] cls = "Constellation" ->
            (CASE prop = "name" -> obj._name [] prop = "description" -> obj._description
               [] prop = "location" -> obj._location)
      [] cls = "Skybox" ->
            (CASE prop = "radius" -> obj._radius
               [] prop = "constellations" -> obj._constellations)

C13_PropertiesReturn ==
    read.cls \in {"StarSystem", "Constellation", "Skybox"} =>
       /\ read.pc # "raised"
       /\ read.pc = "returned" =>
             read.value = StoredValue(read.cls, read.obj, read.prop)

\* C14: for a constructed CelestialBody each of the fourteen declared
\* properties returns a value without raising; perigee among them.
C14_BodyPropertiesReturn ==
    read.cls = "CelestialBody" => read.pc # "raised"

\* C15: validate_orbital_mechanics raises ValueError whenever one of the five
\* required keys is missing, or apogee, perigee, orbit_period or
\* rotation_period is not a positive number (0, negatives and non-numbers),
\* or inclination is not a number; it returns normally only when all five
\* keys are present and those four values are positive numbers.
IsPositiveNumber(v) == DOMAIN v = {"num"} /\ v.num > 0

ValidMechanics(om) ==
    /\ \A j \in 1..Len(required_keys) : required_keys[j] \in DOMAIN om
    /\ \A key \in {"apogee", "perigee", "orbit_period", "rotation_period"} :
          IsPositiveNumber(om[key])
    /\ IsNumber(om.inclination)

C15_RejectsNonPositive ==
    checked.pc # "idle" =>
       /\ checked.pc = "raised" => checked.err = "ValueError"
       /\ checked.pc = "returned" <=> ValidMechanics(checked.arg)

\* C16: every body of cosmos_initialisation_rebuild that exists, after its
\* construction and after any sequence of update_apogee calls, has a
\* body_type among VALID_BODY_TYPES and a strictly positive apogee, perigee,
\* orbit_period, rotation_period and radius; and a constructor call whose
\* arguments would violate this raises ValueError and yields no object.
ValidBody(gi, om, pp) ==
    /\ \E j \in 1..Len(VALID_BODY_TYPES) : VALID_BODY_TYPES[j] = gi.body_type
    /\ \A key \in {"apogee", "perigee", "orbit_period", "rotation_period"} :
          IsPositiveNumber(om[key])
    /\ IsPositiveNumber(pp.radius)

C16_BodyInvariant ==
    /\ rebuilt.exists =>
          ValidBody(rebuilt.obj.general_info, rebuilt.obj.orbital_mechanics,
                    rebuilt.obj.physical_properties)
    /\ (rebuilt.pc = "__init__"
          /\ ~ValidBody(rebuilt.arg[1], rebuilt.arg[2], rebuilt.arg[3])) =>
          rebuilt.err = "ValueError" /\ ~rebuilt.exists

\* C17, as stated: every call with a non-zero period performs exactly 10
\* update steps, whatever the input: a call that has left the loop, by going
\* on to line 28 or by an exception, has made 10 steps.
InLoop(f) == f.pc = "l25"
PastLoop(f) == f.pc \in {"l28", "l31", "l34", "l38", "done"}
LeftLoop(f) == PastLoop(f) \/ (Raising(f) /\ BodyOf(f).orbit_period # 0)

SeededAndCapped ==
    \A f \in Frames :
       /\ (InLoop(f) /\ f.k = 0) => f.E = f.M
       /\ InLoop(f) => f.k < MaxIter
       /\ PastLoop(f) => f.k = MaxIter
       /\ (Raising(f) /\ BodyOf(f).orbit_period # 0 /\ f.k < MaxIter) =>
             NewtonRaises(BodyOf(f).eccentricity, f.E, f.M) = f.err

NewtonUpdates ==
    \A c \in DOMAIN frame :
       (InLoop(frame[c]) /\ frame'[c].pc \in {"l25", "l28"}) =>
          /\ frame'[c].E = NewtonStep(body[frame[c].self].eccentricity,
                                      frame[c].E, frame[c].M)
          /\ frame'[c].k = frame[c].k + 1
          /\ frame'[c].M = frame[c].M

CallEnds ==
    \A c \in Calls :
       (frame[c].pc # "idle") ~> (frame[c].pc \in {"done", "raised"})

EpochOf(op) ==
    IF "epoch_mean_anomaly" \in DOMAIN op THEN op.epoch_mean_anomaly ELSE 0

C18_EpochMeanAnomaly ==
    \A f \in Frames :
       (f.self = "secondary" /\ f.pc \in {"l23", "l25", "l28", "l31", "l34", "l38"}) =>
          /\ f.M = Add(Mul(f.n, f.t), EpochOf(earth_parameters))
          /\ (f.pc = "l25" /\ f.k = 0 /\ f.t = 0) => f.E = EpochOf(earth_parameters)

\* C19: the position returned is the in-plane point (r cos v, r sin v)
\* rotated about the x axis through the inclination i:
\* x = r cos v, y = r sin v cos i, z = r sin v sin i, for every t and every i,
\* so that its distance from the origin is r.  (Stated to within the
\* position tolerance, for valid elements.)
Rotated(r, v, i) ==
    <<Mul(r, Cos(v)), Mul(Mul(r, Sin(v)), Cos(i)), Mul(Mul(r, Sin(v)), Sin(i))>>

C19_RotationAboutX ==
    \A f \in Frames :
       (Returning(f) /\ ValidElements(BodyOf(f))) =>
          /\ Close(f.pos, Rotated(f.r, f.v, BodyOf(f).inclination))
          /\ AtDistance(f.pos, Abs(f.r))

\* math.atan2(y, x), and the true anomaly in the two-argument form,
\* v = 2 atan2(sqrt(1 + e) sin(E / 2), sqrt(1 - e) cos(E / 2)).
Atan2(y, x) ==
    IF x > 0 THEN Atan(Div(y, x))
    ELSE IF x < 0 THEN (IF y >= 0 THEN Atan(Div(y, x)) + Pi ELSE Atan(Div(y, x)) - Pi)
    ELSE IF y > 0 THEN HalfPi ELSE IF y < 0 THEN 0 - HalfPi ELSE 0

TrueAnomalyAtan2(e, E) ==
    2 * Atan2(Mul(Sqrt(Scale + e), Sin(Half(E))), Mul(Sqrt(Scale - e), Cos(Half(E))))

\* An angle tolerance of 1/64 radian, for the twelve fractional bits.
AngleTol == Scale \div 64

HasAnomaly(f) == f.pc \in {"l31", "l34", "l38"} /\ ValidElements(BodyOf(f))

C20_PoleReached ==
    \E f \in Frames : HasAnomaly(f) /\ Cos(Half(f.E)) = 0

\* C21: no body appears more than once in any body's satellites list, after
\* any number of StarSystem constructions over lists that share bodies, the
\* parents being matched by name.
C21_NoDuplicateSatellites ==
    \A b \in 1..Len(heap) :
       LET satellites == heap[b].general_info.satellites
       IN  \A i \in 1..Len(satellites), j \in 1..Len(satellites) :
              satellites[i] = satellites[j] => i = j

\* The fields of the body other than the apogee.
OtherFields(obj) ==
    <<obj.general_info, [obj.orbital_mechanics EXCEPT !.apogee = Num(0)],
      obj.physical_properties>>

\* An update_apogee(v) step, from a state where the body exists.
IsUpdateApogee == rebuilt.exists /\ rebuilt'.pc = "update_apogee"

\* C22: update_apogee(v) with v <= 0 raises ValueError and leaves the stored
\* apogee and every other field of the body unchanged; with v > 0 it sets
\* the apogee to v and changes no other field.
UpdateApogeeChecked ==
    IsUpdateApogee =>
       LET v == rebuilt'.arg[1]
       IN  /\ OtherFields(rebuilt'.obj) = OtherFields(rebuilt.obj)
           /\ rebuilt'.exists
           /\ PyLe(v, 0) =>
                 /\ rebuilt'.err = "ValueError"
                 /\ rebuilt'.obj = rebuilt.obj
           /\ (DOMAIN v = {"num"} /\ v.num > 0) =>
                 /\ rebuilt'.err = ""
                 /\ rebuilt'.obj.orbital_mechanics.apogee = v

C22_UpdateApogee == [][UpdateApogeeChecked]_vars

\* C22 witness: update_apogee(0) has raised, the body keeping its apogee
\* of 2.
C22_Witness ==
    /\ rebuilt.exists /\ rebuilt.pc = "update_apogee"
    /\ rebuilt.err = "ValueError" /\ rebuilt.arg = <<Num(0)>>
    /\ rebuilt.obj.orbital_mechanics.apogee = Num(2)
    /\ rebuilt.arg[1] # rebuilt.obj.orbital_mechanics.apogee

====
